---- MODULE Spec2Model ----
(***************************************************************************)
(* A model of the subscription manager: the renewal-date arithmetic of     *)
(* utils.py, the SQLite-backed SubscriptionManager of subscription.py and  *)
(* the edit flows of main.py (CLI) and gui.py (window).                    *)
(*                                                                         *)
(* Text is modelled as a tuple of one-character strings, so that length,   *)
(* stripping and parsing are computed rather than assumed.  Money is an    *)
(* integer number of cents.  A call's outcome is a record: `raised` names  *)
(* the exception that left the call ("" when it returned) and `value` is   *)
(* what it returned.                                                       *)
(***************************************************************************)
EXTENDS Integers, Sequences, FiniteSets, TLC

VARIABLES
    table,         \* the rows of the subscriptions table, a set keyed by its first column
    seq,           \* sqlite_sequence: the largest id AUTOINCREMENT has handed out
    lastOp,        \* the last store call: which, on which id, and its outcome
    addLog,        \* the ids add_subscription has returned, in call order
    asAdded,       \* [id, sub]: the record passed to add, for ids on which no update or delete was called since
    cliEdit,       \* the Subscription object the CLI edit flow holds between its read and its write
    guiEdit,       \* the GUI's edit dialog: closed, or open on the record it was given
    sqliteError,   \* whether sqlite3 raised an error inside the last store call
    renewal_date,  \* the argument of calculate_days_until_renewal
    today,         \* what date.today() returns during that call
    days,          \* the outcome of that call
    result         \* the outcome of a query or of validate_date, while it is the last call made

vars == <<table, seq, lastOp, addLog, asAdded, cliEdit, guiEdit, sqliteError,
          renewal_date, today, days, result>>

storeVars == <<table, seq, lastOp, addLog, asAdded, cliEdit, guiEdit, sqliteError>>

clockVars == <<renewal_date, today, days>>

----------------------------------------------------------------------------
(* Outcomes of calls *)

Ret(v) == [raised |-> "", value |-> v]

Raise(e) == [raised |-> e, value |-> 0]

NotCalled == [raised |-> "not called", value |-> 0]

----------------------------------------------------------------------------
(* Text *)

DigitChars == <<"0", "1", "2", "3", "4", "5", "6", "7", "8", "9">>

IsDigit(c) == \E i \in 1..10 : DigitChars[i] = c

DigitVal(c) == (CHOOSE i \in 1..10 : DigitChars[i] = c) - 1

\* int() of a non-empty run of decimal digits
RECURSIVE DigitsVal(_)
DigitsVal(s) ==
    IF s = <<>> THEN 0
    ELSE 10 * DigitsVal(SubSeq(s, 1, Len(s) - 1)) + DigitVal(s[Len(s)])

Whitespace == {" ", "\t", "\n"}

\* str.strip(): leading and trailing whitespace removed
RECURSIVE strip(_)
strip(s) ==
    IF s = <<>> THEN s
    ELSE IF Head(s) \in Whitespace THEN strip(Tail(s))
    ELSE IF s[Len(s)] \in Whitespace THEN strip(SubSeq(s, 1, Len(s) - 1))
    ELSE s

----------------------------------------------------------------------------
(* Calendar dates: datetime.date *)

Date(y, m, d) == [year |-> y, month |-> m, day |-> d]

IsLeap(y) == (y % 4 = 0) /\ ((y % 100 # 0) \/ (y % 400 = 0))

DaysInMonth(y, m) ==
    IF m = 2 THEN (IF IsLeap(y) THEN 29 ELSE 28)
    ELSE IF m \in {4, 6, 9, 11} THEN 30
    ELSE 31

\* a check of the ranges alone: every month taken to have 31 days
IsCalendarDateLoose(y, m, d) ==
    /\ y \in 1..9999
    /\ m \in 1..12
    /\ d \in 1..31

\* what the date constructor accepts (MINYEAR is 1, MAXYEAR 9999)
IsCalendarDate(y, m, d) ==
    /\ y \in 1..9999
    /\ m \in 1..12
    /\ d \in 1..DaysInMonth(y, m)

DaysBeforeYear(y) ==
    (y - 1) * 365 + ((y - 1) \div 4) - ((y - 1) \div 100) + ((y - 1) \div 400)

RECURSIVE DaysBeforeMonth(_, _)
DaysBeforeMonth(y, m) ==
    IF m = 1 THEN 0 ELSE DaysBeforeMonth(y, m - 1) + DaysInMonth(y, m - 1)

\* date.toordinal(): the difference of two dates is the difference of their ordinals
toordinal(dt) == DaysBeforeYear(dt.year) + DaysBeforeMonth(dt.year, dt.month) + dt.day

\* date.__le__ in the place of date.__lt__
DateLessOrEqual(a, b) ==
    \/ a.year < b.year
    \/ a.year = b.year /\ a.month < b.month
    \/ a.year = b.year /\ a.month = b.month /\ a.day <= b.day

\* date.__lt__
DateLess(a, b) ==
    \/ a.year < b.year
    \/ a.year = b.year /\ a.month < b.month
    \/ a.year = b.year /\ a.month = b.month /\ a.day < b.day

\* date.replace(year=y): raises ValueError when the day does not exist in year y
replace_year(dt, y) ==
    IF IsCalendarDate(y, dt.month, dt.day)
        THEN Ret(Date(y, dt.month, dt.day))
        ELSE Raise("ValueError")

----------------------------------------------------------------------------
(* utils.py *)

\* re.match(r'^\d{4}-\d{2}-\d{2}$', s): `$` also matches before one trailing newline
MatchesDatePattern(s) ==
    /\ \/ Len(s) = 10
       \/ Len(s) = 11 /\ s[11] = "\n"
    /\ \A i \in {1, 2, 3, 4, 6, 7, 9, 10} : IsDigit(s[i])
    /\ s[5] = "-"
    /\ s[8] = "-"

\* datetime.strptime(s, '%Y-%m-%d') of a string that matched the pattern:
\* unconverted trailing data and impossible dates raise ValueError
strptime(s) ==
    LET y == DigitsVal(SubSeq(s, 1, 4))
        m == DigitsVal(SubSeq(s, 6, 7))
        d == DigitsVal(SubSeq(s, 9, 10))
    IN  IF Len(s) = 10 /\ IsCalendarDate(y, m, d)
            THEN Ret(Date(y, m, d))
            ELSE Raise("ValueError")

validate_date(date_string) ==
    IF date_string = <<>> THEN FALSE
    ELSE IF ~MatchesDatePattern(date_string) THEN FALSE
    ELSE strptime(date_string).raised = ""

\* the rollover with the stored year kept: the first replace(year=...) left out
RenewalDeltaKeepingYear(renewal, now) ==
    IF DateLess(renewal, now)
        THEN LET nextYear == replace_year(renewal, now.year + 1)
             IN  IF nextYear.raised # "" THEN Raise("ValueError")
                 ELSE Ret(toordinal(nextYear.value) - toordinal(now))
        ELSE Ret(toordinal(renewal) - toordinal(now))

\* the rollover of calculate_days_until_renewal, lines 74-89, with the value
\* of date.today() passed in
RenewalDelta(renewal, now) ==
    LET thisYear == replace_year(renewal, now.year)
    IN  IF thisYear.raised # "" THEN Raise("ValueError")
        ELSE IF DateLess(thisYear.value, now)
            THEN LET nextYear == replace_year(renewal, now.year + 1)
                 IN  IF nextYear.raised # "" THEN Raise("ValueError")
                     ELSE Ret(toordinal(nextYear.value) - toordinal(now))
            ELSE Ret(toordinal(thisYear.value) - toordinal(now))

\* a string validate_date rejects answered with a day count instead of an exception
CalculateDaysUnvalidated(date_string, now) ==
    IF ~validate_date(date_string) THEN Ret(0 - 1)
    ELSE RenewalDelta(strptime(date_string).value, now)

calculate_days_until_renewal(date_string, now) ==
    IF ~validate_date(date_string) THEN Raise("ValueError")
    ELSE RenewalDelta(strptime(date_string).value, now)

\* strftime('%Y-%m-%d'), as get_current_date_string formats a date
TwoDigits(n) == <<DigitChars[(n \div 10) + 1], DigitChars[(n % 10) + 1]>>

DateString(y, m, d) ==
    <<DigitChars[(y \div 1000) + 1], DigitChars[((y \div 100) % 10) + 1]>>
        \o TwoDigits(y % 100) \o <<"-">> \o TwoDigits(m) \o <<"-">> \o TwoDigits(d)

----------------------------------------------------------------------------
(* The renewal clock on its own: every today of three consecutive years    *)
(* (a leap year between two common years) against a set of renewal dates.  *)

ClockYears == {2023, 2024, 2025}

Todays ==
    {dt \in [year : ClockYears, month : 1..12, day : 1..31] :
        IsCalendarDate(dt.year, dt.month, dt.day)}

ValidRenewalInputs ==
    { DateString(2024, 2, 29), DateString(2024, 2, 28), DateString(2023, 3, 1),
      DateString(2024, 1, 1), DateString(2023, 12, 31), DateString(2020, 2, 29),
      DateString(2025, 6, 15), DateString(2023, 6, 15), DateString(2024, 1, 10),
      DateString(2000, 2, 29) }

InvalidRenewalInputs ==
    { <<>>, DateString(2024, 2, 30), DateString(2023, 2, 29), DateString(2024, 13, 1),
      DateString(0, 1, 1), DateString(2024, 1, 10) \o <<"\n">>,
      <<"2", "0", "2", "4", "0", "1", "1", "0">>,
      <<"2", "0", "2", "4", "/", "0", "1", "/", "1", "0">>,
      DateString(1900, 2, 29), DateString(2024, 0, 10), DateString(2024, 1, 0),
      DateString(2024, 4, 31), <<" ">> \o DateString(2024, 1, 10),
      <<"2", "0", "2", "4", "-", "1", "-", "1", "0">>,
      <<"2", "0", "2", "4", "-", "0", "1", "-", "1", "x">> }

----------------------------------------------------------------------------
(* utils.py: the validators and parse_cost the front ends call *)

validate_subscription_name(name) ==
    IF name = <<>> \/ strip(name) = <<>> THEN FALSE
    ELSE IF Len(strip(name)) < 2 \/ Len(strip(name)) > 100 THEN FALSE
    ELSE TRUE

validate_category(category) ==
    IF category = <<>> \/ strip(category) = <<>> THEN FALSE
    ELSE IF Len(strip(category)) < 2 \/ Len(strip(category)) > 50 THEN FALSE
    ELSE TRUE

validate_payment_method(payment_method) ==
    IF payment_method = <<>> \/ strip(payment_method) = <<>> THEN FALSE
    ELSE IF Len(strip(payment_method)) < 2 \/ Len(strip(payment_method)) > 50 THEN FALSE
    ELSE TRUE

\* re.sub(r'[$...\s]', '', s): of the currency symbols only $ occurs among the inputs
CurrencyAndSpace == {"$", " ", "\t", "\n"}

RECURSIVE RemoveChars(_, _)
RemoveChars(s, cs) ==
    IF s = <<>> THEN s
    ELSE IF Head(s) \in cs THEN RemoveChars(Tail(s), cs)
    ELSE <<Head(s)>> \o RemoveChars(Tail(s), cs)

RECURSIVE ReplaceChar(_, _, _)
ReplaceChar(s, c, by) ==
    IF s = <<>> THEN s
    ELSE (IF Head(s) = c THEN by ELSE <<Head(s)>>) \o ReplaceChar(Tail(s), c, by)

Contains(s, c) == \E i \in 1..Len(s) : s[i] = c

IndexOf(s, c) == CHOOSE i \in 1..Len(s) : s[i] = c /\ \A j \in 1..(i - 1) : s[j] # c

AllDigits(s) == \A i \in 1..Len(s) : IsDigit(s[i])

\* float() of a decimal literal, in cents: an optional sign, digits, and at most
\* two digits after an optional point.  Anything else among the inputs used
\* here is text float() rejects.
ParseFloat(s) ==
    LET neg  == s # <<>> /\ Head(s) = "-"
        body == IF s # <<>> /\ Head(s) \in {"-", "+"} THEN Tail(s) ELSE s
        dot  == Contains(body, ".")
        ip   == IF dot THEN SubSeq(body, 1, IndexOf(body, ".") - 1) ELSE body
        fp   == IF dot THEN SubSeq(body, IndexOf(body, ".") + 1, Len(body)) ELSE <<>>
        frac == IF Len(fp) = 0 THEN 0
                ELSE IF Len(fp) = 1 THEN 10 * DigitsVal(fp)
                ELSE DigitsVal(fp)
        mag  == 100 * DigitsVal(ip) + frac
    IN  IF AllDigits(ip) /\ AllDigits(fp) /\ Len(ip) + Len(fp) > 0 /\ Len(fp) <= 2
            THEN Ret(IF neg THEN 0 - mag ELSE mag)
            ELSE Raise("ValueError")

parse_cost(cost_string) ==
    IF cost_string = <<>> THEN Raise("ValueError")
    ELSE LET cleaned == RemoveChars(strip(cost_string), CurrencyAndSpace)
             fixed   == IF Contains(cleaned, ",") /\ ~Contains(cleaned, ".")
                            THEN ReplaceChar(cleaned, ",", <<".">>)
                        ELSE IF Contains(cleaned, ",") /\ Contains(cleaned, ".")
                            THEN ReplaceChar(cleaned, ",", <<>>)
                        ELSE cleaned
         IN  ParseFloat(fixed)

----------------------------------------------------------------------------
(* subscription.py: the Subscription dataclass *)

\* Subscription.id is Optional[int]; `not subscription.id` holds for None and
\* for 0 alike and AUTOINCREMENT ids start at 1, so 0 stands for both.
Fields(id, name, category, cost, date_string, payment_method) ==
    [id |-> id, name |-> name, category |-> category, cost |-> cost,
     renewal_date |-> date_string, payment_method |-> payment_method]

NoSub == Fields(0, <<>>, <<>>, 0, <<>>, <<>>)

\* the generated __init__ followed by __post_init__
Subscription(id, name, category, cost, date_string, payment_method) ==
    IF cost < 0 THEN [raised |-> "ValueError", value |-> NoSub]
    ELSE IF ~validate_date(date_string) THEN [raised |-> "ValueError", value |-> NoSub]
    ELSE [raised |-> "", value |-> Fields(id, name, category, cost, date_string, payment_method)]

----------------------------------------------------------------------------
(* subscription.py: SubscriptionManager over the subscriptions table.      *)
(* A row is <<id, name, category, cost, renewal_date, payment_method>>,    *)
(* the first six columns of SELECT *.                                      *)

RowIds(t) == {r[1] : r \in t}

MaxOf(S) == IF S = {} THEN 0 ELSE CHOOSE x \in S : \A y \in S : y <= x

\* a rowid picked without AUTOINCREMENT: one more than the largest rowid in the table
PlainRowid(t, s) == MaxOf(RowIds(t)) + 1

\* INTEGER PRIMARY KEY AUTOINCREMENT: one more than the largest rowid the
\* table has ever held, which sqlite_sequence remembers
AutoincrementRowid(t, s) == MaxOf(RowIds(t) \cup {s}) + 1

\* the INSERT's column list bound to the wrong attributes
InsertRowSwapped(id, sub) ==
    <<id, sub.name, sub.payment_method, sub.cost, sub.renewal_date, sub.category>>

InsertRow(id, sub) ==
    <<id, sub.name, sub.category, sub.cost, sub.renewal_date, sub.payment_method>>

add_subscription(t, s, sub) ==
    LET id == AutoincrementRowid(t, s)
    IN  [table |-> t \cup {InsertRow(id, sub)}, seq |-> id, raised |-> "", value |-> id]

\* Subscription(id=row[0], ..., payment_method=row[5]): the row is re-validated
LoadRow(row) == Subscription(row[1], row[2], row[3], row[4], row[5], row[6])

get_subscription_by_id(t, subscription_id) ==
    LET rows == {r \in t : r[1] = subscription_id}
    IN  IF rows = {} THEN [raised |-> "", ret |-> "None", sub |-> NoSub]
        ELSE LET loaded == LoadRow(CHOOSE r \in rows : TRUE)
             IN  IF loaded.raised # ""
                     THEN [raised |-> loaded.raised, ret |-> "None", sub |-> NoSub]
                     ELSE [raised |-> "", ret |-> "Subscription", sub |-> loaded.value]

\* get_all_subscriptions rebuilds every row; one row that fails __post_init__
\* makes the whole call raise
get_all_subscriptions_raises(t) == \E r \in t : LoadRow(r).raised # ""

\* an UPDATE without its WHERE clause: every row takes the new values
UpdateWithoutWhere(t, sub) ==
    IF sub.id = 0 THEN [table |-> t, raised |-> "ValueError", ret |-> "None"]
    ELSE [table |-> {InsertRow(r[1], sub) : r \in t},
          raised |-> "",
          ret |-> IF Cardinality(t) > 0 THEN "True" ELSE "False"]

\* an update written as INSERT OR REPLACE
UpsertSubscription(t, sub) ==
    IF sub.id = 0 THEN [table |-> t, raised |-> "ValueError", ret |-> "None"]
    ELSE [table |-> {r \in t : r[1] # sub.id} \cup {InsertRow(sub.id, sub)},
          raised |-> "", ret |-> "True"]

update_subscription(t, sub) ==
    IF sub.id = 0 THEN [table |-> t, raised |-> "ValueError", ret |-> "None"]
    ELSE LET hit == {r \in t : r[1] = sub.id}
         IN  [table |-> (t \ hit) \cup {InsertRow(sub.id, sub) : r \in hit},
              raised |-> "",
              ret |-> IF Cardinality(hit) > 0 THEN "True" ELSE "False"]

\* a delete that reports success whatever rowcount says
DeleteAlwaysTrue(t, subscription_id) ==
    [table |-> {r \in t : r[1] # subscription_id}, raised |-> "", ret |-> "True"]

delete_subscription(t, subscription_id) ==
    LET hit == {r \in t : r[1] = subscription_id}
    IN  [table |-> t \ hit, raised |-> "",
         ret |-> IF Cardinality(hit) > 0 THEN "True" ELSE "False"]

\* The same methods when sqlite3 raises sqlite3.Error in connect, execute,
\* fetch or commit.  Each method runs one statement inside `with conn`, which
\* rolls back on an exception, so the table and sqlite_sequence stay as they
\* were.  add re-raises as ValueError; the others print and return.

add_subscription_sqlite_error(t, s, sub) ==
    [table |-> t, seq |-> s, raised |-> "ValueError", value |-> 0]

get_subscription_by_id_sqlite_error(t, subscription_id) ==
    [raised |-> "", ret |-> "None", sub |-> NoSub]

\* a failing update that leaves the name and the category written
UpdateTornBySqliteError(t, sub) ==
    IF sub.id = 0 THEN [table |-> t, raised |-> "ValueError", ret |-> "None"]
    ELSE LET hit == {r \in t : r[1] = sub.id}
         IN  [table |-> (t \ hit) \cup {<<r[1], sub.name, sub.category, r[4], r[5], r[6]>> : r \in hit},
              raised |-> "", ret |-> "False"]

update_subscription_sqlite_error(t, sub) ==
    IF sub.id = 0 THEN [table |-> t, raised |-> "ValueError", ret |-> "None"]
    ELSE [table |-> t, raised |-> "", ret |-> "False"]

delete_subscription_sqlite_error(t, subscription_id) ==
    [table |-> t, raised |-> "", ret |-> "False"]

\* get_all_subscriptions and search_subscriptions: the list is still empty
\* when the except branch is reached
get_all_subscriptions_sqlite_error == Ret(<<>>)

search_subscriptions_sqlite_error(query) == Ret(<<>>)

----------------------------------------------------------------------------
(* main.py: the CLI edit flow, between get_subscription_by_id and          *)
(* update_subscription.  Each prompt's answer is stripped; an empty or     *)
(* rejected answer keeps the fetched value.  The fetched object's fields   *)
(* are assigned directly, so __post_init__ does not run again.             *)

EditedSubscription(sub, answers) ==
    LET new_name           == strip(answers.name)
        new_category       == strip(answers.category)
        new_cost_input     == strip(answers.cost)
        new_renewal_date   == strip(answers.renewal_date)
        new_payment_method == strip(answers.payment_method)
    IN  [id |-> sub.id,
         name |-> IF new_name # <<>> /\ validate_subscription_name(new_name)
                      THEN new_name ELSE sub.name,
         category |-> IF new_category # <<>> /\ validate_category(new_category)
                          THEN new_category ELSE sub.category,
         cost |-> IF new_cost_input # <<>> /\ parse_cost(new_cost_input).raised = ""
                      THEN parse_cost(new_cost_input).value ELSE sub.cost,
         renewal_date |-> IF new_renewal_date # <<>> /\ validate_date(new_renewal_date)
                              THEN new_renewal_date ELSE sub.renewal_date,
         payment_method |-> IF new_payment_method # <<>>
                                    /\ validate_payment_method(new_payment_method)
                                THEN new_payment_method ELSE sub.payment_method]

----------------------------------------------------------------------------
(* subscription.py: the queries.  SQLite compares text with its BINARY      *)
(* collation, byte by byte, and LIKE treats % and _ of the pattern as      *)
(* wildcards and ASCII letters without regard to case.                     *)

UpperChars ==
    <<"A", "B", "C", "D", "E", "F", "G", "H", "I", "J", "K", "L", "M",
      "N", "O", "P", "Q", "R", "S", "T", "U", "V", "W", "X", "Y", "Z">>

LowerChars ==
    <<"a", "b", "c", "d", "e", "f", "g", "h", "i", "j", "k", "l", "m",
      "n", "o", "p", "q", "r", "s", "t", "u", "v", "w", "x", "y", "z">>

\* the characters of names, in the order of their ASCII codes
AsciiOrder ==
    <<" ", "$", "%", "-", ".">> \o DigitChars \o UpperChars \o <<"_">> \o LowerChars

Code(c) == CHOOSE i \in 1..Len(AsciiOrder) : AsciiOrder[i] = c

\* str.lower() and SQL LOWER() of one ASCII character
LowerChar(c) ==
    IF \E i \in 1..26 : UpperChars[i] = c
        THEN LowerChars[CHOOSE i \in 1..26 : UpperChars[i] = c]
        ELSE c

lower(s) == [i \in 1..Len(s) |-> LowerChar(s[i])]

\* a < b under the BINARY collation: memcmp, then the shorter text first
RECURSIVE TextLess(_, _)
TextLess(a, b) ==
    IF b = <<>> THEN FALSE
    ELSE IF a = <<>> THEN TRUE
    ELSE IF Head(a) = Head(b) THEN TextLess(Tail(a), Tail(b))
    ELSE Code(Head(a)) < Code(Head(b))

\* SELECT * ... ORDER BY name: the rows in every order the statement may
\* deliver them, rows of equal name in any order
OrderByName(t) ==
    {rows \in [1..Cardinality(t) -> t] :
        /\ \A i, j \in 1..Cardinality(t) : i < j => rows[i] # rows[j]
        /\ \A i, j \in 1..Cardinality(t) : i < j => ~TextLess(rows[j][2], rows[i][2])}

\* the loop of get_all_subscriptions over the fetched rows: a row that fails
\* __post_init__ makes the call raise
get_all_subscriptions(rows) ==
    IF \E i \in 1..Len(rows) : LoadRow(rows[i]).raised # ""
        THEN Raise("ValueError")
        ELSE Ret([i \in 1..Len(rows) |-> LoadRow(rows[i]).value])

\* text LIKE pattern, without an ESCAPE clause
RECURSIVE Like(_, _)
Like(text, pattern) ==
    IF pattern = <<>> THEN text = <<>>
    ELSE IF Head(pattern) = "%"
        THEN \/ Like(text, Tail(pattern))
             \/ text # <<>> /\ Like(Tail(text), pattern)
    ELSE IF text = <<>> THEN FALSE
    ELSE IF Head(pattern) = "_" THEN Like(Tail(text), Tail(pattern))
    ELSE /\ LowerChar(Head(text)) = LowerChar(Head(pattern))
         /\ Like(Tail(text), Tail(pattern))

\* WHERE LOWER(name) LIKE ? OR LOWER(category) LIKE ?, bound to '%' + query.lower() + '%'
SearchHit(row, query) ==
    LET search_pattern == <<"%">> \o lower(query) \o <<"%">>
    IN  \/ Like(lower(row[2]), search_pattern)
        \/ Like(lower(row[3]), search_pattern)

KeepRows(rows, query) ==
    LET Hit(row) == SearchHit(row, query)
    IN  SelectSeq(rows, Hit)

\* rows: the table in the order ORDER BY name delivers it
search_subscriptions(rows, query) == get_all_subscriptions(KeepRows(rows, query))

\* list.sort(key=lambda x: x[1]): ascending by days, stable
RECURSIVE SortByDays(_)
SortByDays(upcoming) ==
    IF upcoming = <<>> THEN <<>>
    ELSE LET n     == Len(upcoming)
             first == CHOOSE i \in 1..n :
                          /\ \A j \in 1..n : upcoming[i].days_until <= upcoming[j].days_until
                          /\ \A j \in 1..(i - 1) : upcoming[j].days_until # upcoming[i].days_until
         IN  <<upcoming[first]>>
                 \o SortByDays(SubSeq(upcoming, 1, first - 1) \o SubSeq(upcoming, first + 1, n))

\* rows as fetched by get_all_subscriptions; clock[i]: what date.today()
\* returns when the loop reaches the i-th record and calls
\* calculate_days_until_renewal, which reads it anew each time
get_upcoming_renewals(rows, window, clock) ==
    LET all == get_all_subscriptions(rows)
    IN  IF all.raised # "" THEN Raise(all.raised)
        ELSE LET subscriptions == all.value
                 until(i) == calculate_days_until_renewal(subscriptions[i].renewal_date,
                                                          clock[i])
                 pairs == [i \in 1..Len(subscriptions) |->
                              [subscription |-> subscriptions[i], days_until |-> until(i).value]]
                 InWindow(pair) == 0 <= pair.days_until /\ pair.days_until <= window
             IN  IF \E i \in 1..Len(subscriptions) : until(i).raised # ""
                     THEN Raise("ValueError")
                     ELSE Ret(SortByDays(SelectSeq(pairs, InWindow)))

RECURSIVE CategoryTotal(_, _)
CategoryTotal(subscriptions, category) ==
    IF subscriptions = <<>> THEN 0
    ELSE (IF Head(subscriptions).category = category THEN Head(subscriptions).cost ELSE 0)
             + CategoryTotal(Tail(subscriptions), category)

\* the dict of get_cost_by_category, as a function on its keys
get_cost_by_category(rows) ==
    LET all == get_all_subscriptions(rows)
    IN  IF all.raised # "" THEN Raise(all.raised)
        ELSE LET subscriptions == all.value
                 keys == {subscriptions[i].category : i \in 1..Len(subscriptions)}
             IN  Ret([category \in keys |-> CategoryTotal(subscriptions, category)])

RECURSIVE SumCost(_)
SumCost(subscriptions) ==
    IF subscriptions = <<>> THEN 0
    ELSE Head(subscriptions).cost + SumCost(Tail(subscriptions))

get_total_monthly_cost(rows) ==
    LET all == get_all_subscriptions(rows)
    IN  IF all.raised # "" THEN Raise(all.raised) ELSE Ret(SumCost(all.value))

get_total_annual_cost(rows) ==
    LET monthly == get_total_monthly_cost(rows)
    IN  IF monthly.raised # "" THEN Raise(monthly.raised) ELSE Ret(monthly.value * 12)

----------------------------------------------------------------------------
(* Inputs *)

MaxId == 2

Ids == 0..MaxId

Input(name, category, cost, date_string, payment_method) ==
    [name |-> name, category |-> category, cost |-> cost,
     renewal_date |-> date_string, payment_method |-> payment_method]

LongText == [i \in 1..51 |-> "c"]

\* the records front ends build: a well-formed one, one whose three text fields
\* break the length rules, one with a negative cost, one with an impossible date
AddInputs ==
    { Input(<<"N", "f", "x">>, <<"T", "V">>, 1599, DateString(2024, 2, 15), <<"C", "C">>),
      Input(<<"X">>, LongText, 999, DateString(2024, 1, 20), <<>>),
      Input(<<"N", "f", "x">>, <<"T", "V">>, 0 - 100, DateString(2024, 2, 15), <<"C", "C">>),
      Input(<<"N", "f", "x">>, <<"T", "V">>, 1599, DateString(2024, 2, 30), <<"C", "C">>) }

\* what the user types at the five prompts of the edit flow: nothing at all, a
\* new valid value everywhere, a negative cost only, a rejected value everywhere
EditAnswers ==
    { Input(<<>>, <<>>, <<>>, <<>>, <<>>),
      Input(<<"H", "B", "O">>, <<"F", "i", "l", "m">>, <<"$", "7", ".", "5", "0">>,
            DateString(2025, 3, 1), <<" ", "P", "P">>),
      Input(<<>>, <<>>, <<"-", "5">>, <<>>, <<>>),
      Input(<<"Y">>, <<"Z">>, <<"a", "b", "c">>, DateString(2024, 2, 30), <<"W">>) }

----------------------------------------------------------------------------
(* The store and its callers *)

Op(op, id, raised, ret, sub) ==
    [op |-> op, id |-> id, raised |-> raised, ret |-> ret, sub |-> sub]

Idle == [phase |-> "idle", sub |-> NoSub]

NoResult == [call |-> "none"]

Untouch(id) == {a \in asAdded : a.id # id}

\* Subscription(...) then add_subscription, as demo.py and both front ends do
AddSubscription(in) ==
    /\ seq < MaxId
    /\ LET made == Subscription(0, in.name, in.category, in.cost, in.renewal_date,
                                in.payment_method)
           out  == add_subscription(table, seq, made.value)
       IN  IF made.raised # ""
               THEN /\ lastOp' = Op("add", 0, made.raised, "None", NoSub)
                    /\ UNCHANGED <<table, seq, addLog, asAdded>>
               ELSE /\ table' = out.table
                    /\ seq' = out.seq
                    /\ lastOp' = Op("add", out.value, out.raised, "id", NoSub)
                    /\ addLog' = Append(addLog, out.value)
                    /\ asAdded' = asAdded \cup {[id |-> out.value, sub |-> made.value]}
    /\ UNCHANGED cliEdit
    /\ UNCHANGED clockVars
    /\ result' = NoResult
    /\ sqliteError' = FALSE
    /\ UNCHANGED guiEdit

GetSubscriptionById(id) ==
    /\ LET got == get_subscription_by_id(table, id)
       IN  lastOp' = Op("get", id, got.raised, got.ret, got.sub)
    /\ UNCHANGED <<table, seq, addLog, asAdded, cliEdit>>
    /\ UNCHANGED clockVars
    /\ result' = NoResult
    /\ sqliteError' = FALSE
    /\ UNCHANGED guiEdit

\* a freshly constructed Subscription given the id of the record to replace
\* (gui.py lines 160-162), then update_subscription
UpdateSubscription(id, in) ==
    /\ LET made == Subscription(0, in.name, in.category, in.cost, in.renewal_date,
                                in.payment_method)
           out  == update_subscription(table, [made.value EXCEPT !.id = id])
       IN  /\ made.raised = ""
           /\ table' = out.table
           /\ lastOp' = Op("update", id, out.raised, out.ret, NoSub)
    /\ asAdded' = Untouch(id)
    /\ UNCHANGED <<seq, addLog, cliEdit>>
    /\ UNCHANGED clockVars
    /\ result' = NoResult
    /\ sqliteError' = FALSE
    /\ UNCHANGED guiEdit

DeleteSubscription(id) ==
    /\ LET out == delete_subscription(table, id)
       IN  /\ table' = out.table
           /\ lastOp' = Op("delete", id, out.raised, out.ret, NoSub)
    /\ asAdded' = Untouch(id)
    /\ UNCHANGED <<seq, addLog, cliEdit>>
    /\ UNCHANGED clockVars
    /\ result' = NoResult
    /\ sqliteError' = FALSE
    /\ UNCHANGED guiEdit

\* edit_subscription up to its first prompt: list_subscriptions, then the read
CliEditFetch(id) ==
    /\ cliEdit.phase = "idle"
    /\ LET got == get_subscription_by_id(table, id)
       IN  IF get_all_subscriptions_raises(table)
               THEN /\ lastOp' = Op("list", 0, "ValueError", "None", NoSub)
                    /\ UNCHANGED cliEdit
               ELSE /\ lastOp' = Op("get", id, got.raised, got.ret, got.sub)
                    /\ cliEdit' = IF got.ret = "Subscription"
                                      THEN [phase |-> "editing", sub |-> got.sub]
                                      ELSE Idle
    /\ UNCHANGED <<table, seq, addLog, asAdded>>
    /\ UNCHANGED clockVars
    /\ result' = NoResult
    /\ sqliteError' = FALSE
    /\ UNCHANGED guiEdit

\* edit_subscription from its prompts to the end: the write
CliEditWrite(answers) ==
    /\ cliEdit.phase = "editing"
    /\ LET edited == EditedSubscription(cliEdit.sub, answers)
           out    == update_subscription(table, edited)
       IN  /\ table' = out.table
           /\ lastOp' = Op("update", edited.id, out.raised, out.ret, NoSub)
           /\ asAdded' = Untouch(edited.id)
    /\ cliEdit' = Idle
    /\ UNCHANGED <<seq, addLog>>
    /\ UNCHANGED clockVars
    /\ result' = NoResult
    /\ sqliteError' = FALSE
    /\ UNCHANGED guiEdit

\* Ctrl-C at a prompt: "Operation cancelled."
CliEditCancel ==
    /\ cliEdit.phase = "editing"
    /\ cliEdit' = Idle
    /\ lastOp' = Op("cancel", cliEdit.sub.id, "KeyboardInterrupt", "None", NoSub)
    /\ UNCHANGED <<table, seq, addLog, asAdded>>
    /\ UNCHANGED clockVars
    /\ result' = NoResult
    /\ sqliteError' = FALSE
    /\ UNCHANGED guiEdit

NoDate == Date(0, 0, 0)

ClockIdle ==
    /\ renewal_date = <<>>
    /\ today = NoDate
    /\ days = NotCalled
    /\ result = NoResult

StoreEmpty ==
    /\ table = {}
    /\ seq = 0
    /\ lastOp = Op("init", 0, "", "None", NoSub)
    /\ addLog = <<>>
    /\ asAdded = {}
    /\ cliEdit = Idle
    /\ guiEdit = Idle
    /\ sqliteError = FALSE

Init == StoreEmpty /\ ClockIdle

Next ==
    \/ \E in \in AddInputs : AddSubscription(in)
    \/ \E id \in Ids : GetSubscriptionById(id)
    \/ \E id \in Ids, in \in AddInputs : UpdateSubscription(id, in)
    \/ \E id \in Ids : DeleteSubscription(id)
    \/ \E id \in Ids : CliEditFetch(id)
    \/ \E answers \in EditAnswers : CliEditWrite(answers)
    \/ CliEditCancel

Spec == Init /\ [][Next]_vars

----------------------------------------------------------------------------
(* The renewal clock on its own *)

ClockInit ==
    /\ StoreEmpty
    /\ renewal_date \in ValidRenewalInputs \cup InvalidRenewalInputs
    /\ today \in Todays
    /\ days = NotCalled
    /\ result = NoResult

CalculateDays ==
    /\ days = NotCalled
    /\ days' = calculate_days_until_renewal(renewal_date, today)
    /\ UNCHANGED <<renewal_date, today, result>>
    /\ UNCHANGED storeVars

ValidateDate ==
    /\ result = NoResult
    /\ result' = [call |-> "validate_date", out |-> validate_date(renewal_date)]
    /\ UNCHANGED <<renewal_date, today, days>>
    /\ UNCHANGED storeVars

\* the day after dt
NextDay(dt) ==
    IF dt.day < DaysInMonth(dt.year, dt.month) THEN Date(dt.year, dt.month, dt.day + 1)
    ELSE IF dt.month < 12 THEN Date(dt.year, dt.month + 1, 1)
    ELSE Date(dt.year + 1, 1, 1)

\* what date.today() can return in a call made after CalculateDays: the same
\* day, or the next one when midnight has passed in between
LaterTodays == {today, NextDay(today)}

\* a second call with the same argument; date.today() is read again (line 76)
CalculateDaysAgain(now) ==
    /\ days # NotCalled
    /\ result.call # "calculate_days_until_renewal"
    /\ result' = [call |-> "calculate_days_until_renewal", now |-> now,
                  out |-> calculate_days_until_renewal(renewal_date, now)]
    /\ UNCHANGED <<renewal_date, today, days>>
    /\ UNCHANGED storeVars

ClockNext ==
    \/ CalculateDays
    \/ ValidateDate
    \/ \E now \in LaterTodays : CalculateDaysAgain(now)

ClockSpec == ClockInit /\ [][ClockNext]_vars

----------------------------------------------------------------------------
(* The claims.  The record invariants of the data model, as the claims     *)
(* state them: cost >= 0, a renewal date validate accepts, and name,       *)
(* category and payment method non-empty and within their length bounds.   *)

CostAndDateValid(cost, date_string) == cost >= 0 /\ validate_date(date_string)

MeetsRecordInvariants(r) ==
    /\ CostAndDateValid(r.cost, r.renewal_date)
    /\ validate_subscription_name(r.name)
    /\ validate_category(r.category)
    /\ validate_payment_method(r.payment_method)

\* C1: after any sequence of add, update and delete, the CLI edit flow's
\* updates included, every stored record has cost >= 0 and a renewal date
\* that passes validate.
C1_StoredRecordsValid == \A r \in table : CostAndDateValid(r[4], r[5])

\* The anniversary the rollover rule names: the renewal date's month and day in
\* today's year, moved to the next year when that is strictly before today.
RuleCandidate(renewal, now) ==
    IF DateLess(Date(now.year, renewal.month, renewal.day), now)
        THEN Date(now.year + 1, renewal.month, renewal.day)
        ELSE Date(now.year, renewal.month, renewal.day)

Called == days # NotCalled

Renewal == strptime(renewal_date).value

Candidate == RuleCandidate(Renewal, today)

\* C2: for every valid renewal date and every today for which the rule's
\* candidate is a date of the calendar, the call returns the whole-day
\* difference between that candidate and today.
C2_FollowsRolloverRule ==
    (/\ Called
     /\ validate_date(renewal_date)
     /\ IsCalendarDate(Candidate.year, Candidate.month, Candidate.day)) =>
        /\ days.raised = ""
        /\ days.value = toordinal(Candidate) - toordinal(today)

\* C3: for every valid renewal date, Feb 29 included, and every today the
\* call returns an integer from 0 to 366 and never a negative one.
C3_ResultWithinYear ==
    (Called /\ validate_date(renewal_date)) =>
        /\ days.raised = ""
        /\ days.value \in 0..366

\* C4: for a Feb 29 renewal date whose candidate year is not a leap year the
\* call does not fail and returns the count to Feb 28 or to Mar 1 of that year.
C4_Feb29Fallback ==
    (/\ Called
     /\ validate_date(renewal_date)
     /\ Renewal.month = 2
     /\ Renewal.day = 29
     /\ ~IsLeap(Candidate.year)) =>
        /\ days.raised = ""
        /\ days.value \in { toordinal(Date(Candidate.year, 2, 28)) - toordinal(today),
                            toordinal(Date(Candidate.year, 3, 1)) - toordinal(today) }

\* C5: an add of a record that breaks a record invariant fails and stores
\* nothing; any other add stores the record and returns its new id.
C5_AddValidates ==
    [][\A in \in AddInputs :
          AddSubscription(in) =>
              IF MeetsRecordInvariants(in)
                  THEN /\ lastOp'.raised = ""
                       /\ lastOp'.ret = "id"
                       /\ lastOp'.id \notin RowIds(table)
                       /\ table' = table \cup {InsertRow(lastOp'.id, in)}
                  ELSE /\ lastOp'.raised # ""
                       /\ table' = table]_vars

\* What an update of the record `sub` must do, by claim C6.
UpdateValidated(sub) ==
    IF MeetsRecordInvariants(sub)
        THEN sub.id \in RowIds(table) =>
                 /\ lastOp'.ret = "True"
                 /\ InsertRow(sub.id, sub) \in table'
        ELSE /\ ~(lastOp'.raised = "" /\ lastOp'.ret = "True")
             /\ table' = table

\* C6: an update whose record breaks a record invariant is rejected and the
\* stored record keeps its values; a valid update of a stored id replaces all
\* five attributes.
C6_UpdateValidates ==
    [][/\ \A id \in Ids, in \in AddInputs :
              UpdateSubscription(id, in) =>
                  UpdateValidated(Fields(id, in.name, in.category, in.cost,
                                         in.renewal_date, in.payment_method))
       /\ \A answers \in EditAnswers :
              CliEditWrite(answers) =>
                  UpdateValidated(EditedSubscription(cliEdit.sub, answers))]_vars

UpdateStep ==
    \/ \E id \in Ids, in \in AddInputs : UpdateSubscription(id, in)
    \/ \E answers \in EditAnswers : CliEditWrite(answers)

\* C7: an update naming an id with no stored record does not report success
\* (it returns False, or raises when the id is missing or 0), inserts nothing
\* and leaves the table as it was.
C7_UpdateOfMissingIdFails ==
    [][(UpdateStep /\ lastOp'.id \notin RowIds(table)) =>
          /\ lastOp'.op = "update"
          /\ ~(lastOp'.raised = "" /\ lastOp'.ret = "True")
          /\ table' = table
          /\ seq' = seq]_vars

\* an update of the id of a record that was added and is gone has just failed
C7_Witness ==
    /\ lastOp.op = "update"
    /\ lastOp.ret = "False"
    /\ lastOp.id \notin RowIds(table)
    /\ \E i \in 1..Len(addLog) : addLog[i] = lastOp.id

\* C8: the ids add returns are strictly increasing in call order, hence
\* pairwise distinct: no id is handed out twice, whatever was deleted between.
C8_IdsStrictlyIncreasing ==
    \A i, j \in 1..Len(addLog) : i < j => addLog[i] < addLog[j]

\* an add has just returned after the record with the highest id so far was deleted
C8_Witness ==
    /\ lastOp.op = "add"
    /\ lastOp.raised = ""
    /\ Len(addLog) >= 2
    /\ addLog[Len(addLog)] = lastOp.id
    /\ addLog[Len(addLog) - 1] \notin RowIds(table)

----------------------------------------------------------------------------
(* The queries over a store that adds and the CLI edit flow have filled *)

\* records that differ in the case of their names and categories, share a
\* renewal day, carry a wildcard character, or renew on 29 February
QueryInputs ==
    { Input(<<"a", "b">>, <<"T", "V">>, 1000, DateString(2024, 1, 10), <<"C">>),
      Input(<<"B">>, <<"t", "v">>, 500, DateString(2023, 1, 10), <<"C">>),
      Input(<<"A">>, <<"T", "V">>, 250, DateString(2024, 2, 29), <<"C">>),
      Input(<<"a", "_">>, <<"5", "%">>, 0, DateString(2022, 1, 5), <<"C">>) }

\* a negative cost typed at the edit flow's cost prompt
QueryEditAnswers == { Input(<<>>, <<>>, <<"-", "5">>, <<>>, <<>>) }

\* the record the edit flow is run on: the first one added
EditedIds == {1}

SearchQueries == { <<>>, <<"%">>, <<"_">>, <<"t", "V">>, <<"A">>, <<"b", "_">> }

\* what is typed at the CLI's search prompt
TypedQueries == { <<>>, <<" ">>, <<" ", "t", "V">> }

\* the days argument of get_upcoming_renewals
Windows == { 0 - 1, 0, 5, 366 }

\* a day of a leap year before its 29 February, and the same day a year earlier
QueryTodays == { Date(2024, 1, 5), Date(2023, 1, 5) }

\* a query that logs its answer in the database, using up an id
AnswerLogged(call, arg, rows, clock, out) ==
    /\ result' = [call |-> call, arg |-> arg, rows |-> rows, clock |-> clock, out |-> out]
    /\ lastOp' = Op(call, 0, out.raised, "None", NoSub)
    /\ seq' = seq + 1
    /\ sqliteError' = FALSE
    /\ UNCHANGED <<table, addLog, asAdded, cliEdit, guiEdit>>
    /\ UNCHANGED clockVars

Answer(call, arg, rows, clock, out) ==
    /\ result' = [call |-> call, arg |-> arg, rows |-> rows, clock |-> clock, out |-> out]
    /\ lastOp' = Op(call, 0, out.raised, "None", NoSub)
    /\ sqliteError' = FALSE
    /\ UNCHANGED <<table, seq, addLog, asAdded, cliEdit, guiEdit>>
    /\ UNCHANGED clockVars

GetAllSubscriptions ==
    \E rows \in OrderByName(table) :
        Answer("get_all_subscriptions", 0, rows, <<>>, get_all_subscriptions(rows))

SearchSubscriptions(query) ==
    \E rows \in OrderByName(table) :
        Answer("search_subscriptions", query, rows, <<>>,
               search_subscriptions(rows, query))

\* the CLI's search: the typed line is stripped, and an empty term is turned
\* away with a message before the store is asked
CliSearchSubscriptions(typed) ==
    LET query == strip(typed)
    IN  IF query = <<>>
            THEN /\ result' = [call |-> "cli search", arg |-> typed, rows |-> <<>>,
                               clock |-> <<>>, out |-> Ret(<<>>)]
                 /\ lastOp' = Op("cli search", 0, "", "None", NoSub)
                 /\ sqliteError' = FALSE
                 /\ UNCHANGED <<table, seq, addLog, asAdded, cliEdit, guiEdit>>
                 /\ UNCHANGED clockVars
            ELSE \E rows \in OrderByName(table) :
                     Answer("search_subscriptions", query, rows, <<>>,
                            search_subscriptions(rows, query))

\* the readings of date.today() during one pass over n records: today for
\* the first `before` of them, the next day for the rest when midnight
\* passes during the pass
Readings(n, before) == [i \in 1..n |-> IF i <= before THEN today ELSE NextDay(today)]

\* today is the day the first record is read on
GetUpcomingRenewals(window) ==
    \E rows \in OrderByName(table) :
        \E before \in {k \in 0..Len(rows) : k >= 1 \/ rows = <<>>} :
            LET clock == Readings(Len(rows), before)
            IN  Answer("get_upcoming_renewals", window, rows, clock,
                       get_upcoming_renewals(rows, window, clock))

GetCostByCategory ==
    \E rows \in OrderByName(table) :
        Answer("get_cost_by_category", 0, rows, <<>>, get_cost_by_category(rows))

GetTotalMonthlyCost ==
    \E rows \in OrderByName(table) :
        Answer("get_total_monthly_cost", 0, rows, <<>>, get_total_monthly_cost(rows))

GetTotalAnnualCost ==
    \E rows \in OrderByName(table) :
        Answer("get_total_annual_cost", 0, rows, <<>>, get_total_annual_cost(rows))

----------------------------------------------------------------------------
(* The store on a database that may fail: any call may run into            *)
(* sqlite3.Error (a locked or unreadable file, a full disk).               *)

\* two records that differ in every attribute
FaultInputs ==
    { Input(<<"a">>, <<"T", "V">>, 1000, DateString(2024, 1, 10), <<"C", "C">>),
      Input(<<"b">>, <<"F", "M">>, 500, DateString(2024, 2, 29), <<"P", "P">>) }

FaultQueries == {<<"a">>, <<"z">>}

\* the last call ran into sqlite3.Error; what = the call and what its caller got
Failed(what) ==
    /\ lastOp' = what
    /\ sqliteError' = TRUE
    /\ result' = NoResult
    /\ UNCHANGED <<seq, addLog, asAdded, cliEdit, guiEdit>>
    /\ UNCHANGED clockVars

AddSubscriptionSqliteError(in) ==
    LET made == Subscription(0, in.name, in.category, in.cost, in.renewal_date,
                             in.payment_method)
        out  == add_subscription_sqlite_error(table, seq, made.value)
    IN  /\ made.raised = ""
        /\ table' = out.table
        /\ Failed(Op("add", out.value, out.raised, "None", NoSub))

GetSubscriptionByIdSqliteError(id) ==
    LET got == get_subscription_by_id_sqlite_error(table, id)
    IN  /\ table' = table
        /\ Failed(Op("get", id, got.raised, got.ret, got.sub))

UpdateSubscriptionSqliteError(id, in) ==
    LET made == Subscription(0, in.name, in.category, in.cost, in.renewal_date,
                             in.payment_method)
        out  == update_subscription_sqlite_error(table, [made.value EXCEPT !.id = id])
    IN  /\ made.raised = ""
        /\ id # 0
        /\ table' = out.table
        /\ Failed(Op("update", id, out.raised, out.ret, NoSub))

DeleteSubscriptionSqliteError(id) ==
    LET out == delete_subscription_sqlite_error(table, id)
    IN  /\ table' = out.table
        /\ Failed(Op("delete", id, out.raised, out.ret, NoSub))

\* ret tells the list apart from None: "list" for a list, however short
GetAllSubscriptionsSqliteError ==
    /\ table' = table
    /\ Failed(Op("get_all_subscriptions", 0, get_all_subscriptions_sqlite_error.raised,
                 "list", NoSub))

SearchSubscriptionsSqliteError(query) ==
    /\ table' = table
    /\ Failed(Op("search_subscriptions", 0, search_subscriptions_sqlite_error(query).raised,
                 "list", NoSub))

FaultNext ==
    \/ \E in \in FaultInputs : AddSubscription(in)
    \/ \E id \in Ids : GetSubscriptionById(id)
    \/ \E id \in Ids, in \in FaultInputs : UpdateSubscription(id, in)
    \/ \E id \in Ids : DeleteSubscription(id)
    \/ GetAllSubscriptions
    \/ \E query \in FaultQueries : SearchSubscriptions(query)
    \/ \E in \in FaultInputs : AddSubscriptionSqliteError(in)
    \/ \E id \in Ids : GetSubscriptionByIdSqliteError(id)
    \/ \E id \in Ids, in \in FaultInputs : UpdateSubscriptionSqliteError(id, in)
    \/ \E id \in Ids : DeleteSubscriptionSqliteError(id)
    \/ GetAllSubscriptionsSqliteError
    \/ \E query \in FaultQueries : SearchSubscriptionsSqliteError(query)

FaultSpec == Init /\ [][FaultNext]_vars

----------------------------------------------------------------------------
(* gui.py: the edit flow of the window.  SubscriptionDialog.__init__ sets  *)
(* self.result = None, builds the dialog and returns without waiting for   *)
(* it, so edit_selected_subscription finds `dialog.result` None and ends   *)
(* before its update; OK is handled later, by ok_clicked.                  *)

\* ok_clicked: shown = the message box it opens ("None" when it opens none),
\* closed = whether the dialog was destroyed, result = self.result afterwards
ok_clicked(fields) ==
    LET name           == strip(fields.name)
        category       == strip(fields.category)
        cost_str       == strip(fields.cost)
        date_string    == strip(fields.renewal_date)
        payment_method == strip(fields.payment_method)
        rejected       == [shown |-> "showerror", closed |-> FALSE, result |-> NoSub]
    IN  IF <<>> \in {name, category, cost_str, date_string, payment_method} THEN rejected
        ELSE IF parse_cost(cost_str).raised # "" THEN rejected
        ELSE IF ~validate_date(date_string) THEN rejected
        ELSE LET made == Subscription(0, name, category, parse_cost(cost_str).value,
                                      date_string, payment_method)
             IN  IF made.raised # "" THEN rejected
                 ELSE [shown |-> "None", closed |-> TRUE, result |-> made.value]

\* what the user has in the five entries when pressing OK
GuiFields ==
    { Input(<<"H", "B", "O">>, <<"F", "M">>, <<"7", ".", "5", "0">>,
            DateString(2025, 3, 1), <<"P", "P">>),
      Input(<<"H", "B", "O">>, <<"F", "M">>, <<"7", ".", "5", "0">>,
            DateString(2024, 2, 30), <<"P", "P">>) }

\* edit_selected_subscription on the row of the tree that shows id: the tree
\* is as the last refresh left it, so the id may be gone from the store
GuiEditSelected(id) ==
    /\ guiEdit.phase = "idle"
    /\ LET got == get_subscription_by_id(table, id)
       IN  /\ lastOp' = Op("get", id, got.raised, got.ret, got.sub)
           /\ guiEdit' = IF got.ret = "Subscription"
                             THEN [phase |-> "dialog", sub |-> got.sub]
                             ELSE Idle
    /\ sqliteError' = FALSE
    /\ result' = NoResult
    /\ UNCHANGED <<table, seq, addLog, asAdded, cliEdit>>
    /\ UNCHANGED clockVars

\* the OK button of the open dialog; nobody reads self.result afterwards
GuiOkClicked(fields) ==
    /\ guiEdit.phase = "dialog"
    /\ LET clicked == ok_clicked(fields)
       IN  /\ lastOp' = Op("ok_clicked", guiEdit.sub.id, "", clicked.shown, NoSub)
           /\ guiEdit' = IF clicked.closed THEN Idle ELSE guiEdit
    /\ sqliteError' = FALSE
    /\ result' = NoResult
    /\ UNCHANGED <<table, seq, addLog, asAdded, cliEdit>>
    /\ UNCHANGED clockVars

GuiCancelClicked ==
    /\ guiEdit.phase = "dialog"
    /\ guiEdit' = Idle
    /\ lastOp' = Op("cancel_clicked", guiEdit.sub.id, "", "None", NoSub)
    /\ sqliteError' = FALSE
    /\ result' = NoResult
    /\ UNCHANGED <<table, seq, addLog, asAdded, cliEdit>>
    /\ UNCHANGED clockVars

\* the CLI and the GUI, two processes on one database file
SharedNext ==
    \/ \E in \in FaultInputs : AddSubscription(in)
    \/ \E id \in Ids : DeleteSubscription(id)
    \/ \E id \in Ids : CliEditFetch(id)
    \/ \E answers \in EditAnswers : CliEditWrite(answers)
    \/ CliEditCancel
    \/ \E id \in Ids : GuiEditSelected(id)
    \/ \E fields \in GuiFields : GuiOkClicked(fields)
    \/ GuiCancelClicked

SharedSpec == Init /\ [][SharedNext]_vars

QueryInit ==
    /\ StoreEmpty
    /\ renewal_date = <<>>
    /\ today \in QueryTodays
    /\ days = NotCalled
    /\ result = NoResult

QueryNext ==
    \/ \E in \in QueryInputs : AddSubscription(in)
    \/ \E id \in Ids : GetSubscriptionById(id)
    \/ \E id \in RowIds(table) \cap EditedIds : CliEditFetch(id)
    \/ \E answers \in QueryEditAnswers : CliEditWrite(answers)
    \/ GetAllSubscriptions
    \/ \E query \in SearchQueries : SearchSubscriptions(query)
    \/ \E typed \in TypedQueries : CliSearchSubscriptions(typed)
    \/ \E window \in Windows : GetUpcomingRenewals(window)
    \/ GetCostByCategory
    \/ GetTotalMonthlyCost
    \/ GetTotalAnnualCost

QuerySpec == QueryInit /\ [][QueryNext]_vars

----------------------------------------------------------------------------
(* The renewal clock, continued *)

\* C14: two calls of the day count with the same renewal date string give the
\* same outcome; nothing but the arguments, the system clock least of all,
\* decides the result.
C14_SameInputSameOutput ==
    (result.call = "calculate_days_until_renewal") => (result.out = days)

\* the length of month m of year y, from the calendar rules
MonthLength(y, m) ==
    IF m = 2
        THEN IF (y % 4 = 0 /\ y % 100 # 0) \/ y % 400 = 0 THEN 29 ELSE 28
    ELSE IF m \in {4, 6, 9, 11} THEN 30
    ELSE 31

\* s has the form dddd-dd-dd and names a day of the calendar
IsRealDateText(s) ==
    /\ Len(s) = 10
    /\ \A i \in {1, 2, 3, 4, 6, 7, 9, 10} : s[i] \in {DigitChars[k] : k \in 1..10}
    /\ s[5] = "-"
    /\ s[8] = "-"
    /\ LET y == DigitsVal(SubSeq(s, 1, 4))
           m == DigitsVal(SubSeq(s, 6, 7))
           d == DigitsVal(SubSeq(s, 9, 10))
       IN  /\ y >= 1
           /\ m >= 1 /\ m <= 12
           /\ d >= 1 /\ d <= MonthLength(y, m)

\* C16: a renewal date whose month and day are today's is due in 0 days, not
\* in a year.
C16_DueTodayIsZero ==
    (/\ Called
     /\ IsRealDateText(renewal_date)
     /\ DigitsVal(SubSeq(renewal_date, 6, 7)) = today.month
     /\ DigitsVal(SubSeq(renewal_date, 9, 10)) = today.day) =>
        days = Ret(0)

\* the day count was asked on the very day of the renewal, a 29 February
C16_Witness ==
    /\ Called
    /\ renewal_date = DateString(2020, 2, 29)
    /\ today = Date(2024, 2, 29)

\* C17: the day count of a string that is no date (empty, of the wrong
\* pattern, or naming a day that does not exist) is an exception, never a number.
C17_InvalidStringRaises ==
    (Called /\ ~IsRealDateText(renewal_date)) =>
        /\ days.raised = "ValueError"
        /\ days # Ret(days.value)

\* the day count of 30 February was asked
C17_Witness ==
    /\ Called
    /\ renewal_date = DateString(2024, 2, 30)

\* C18: validate_date answers True exactly for the strings dddd-dd-dd that
\* name a day of the calendar, and False, without raising, for every other.
C18_ValidateExactlyRealDates ==
    (result.call = "validate_date") =>
        /\ result.out \in BOOLEAN
        /\ result.out <=> IsRealDateText(renewal_date)

\* validate_date has answered on 29 February of a leap year
C18_Witness ==
    /\ result.call = "validate_date"
    /\ renewal_date = DateString(2024, 2, 29)

\* the years a renewal date is moved to: leap, common, century
OtherYears == {2000, 2023, 2024, 2100}

\* renewal_date with its year replaced by y
InYear(y) ==
    DateString(y, DigitsVal(SubSeq(renewal_date, 6, 7)), DigitsVal(SubSeq(renewal_date, 9, 10)))

\* a store of one record that renews on date_string, as fetched
OneRecord(date_string) == << <<1, <<"A">>, <<"T", "V">>, 100, date_string, <<"C">> >> >>

\* whether the upcoming renewals of the one-record store were computed, and
\* the day counts they list
Listed(date_string, window) ==
    LET out == get_upcoming_renewals(OneRecord(date_string), window, <<today>>)
    IN  [raised |-> out.raised,
         counts |-> IF out.raised # "" THEN <<>>
                    ELSE [i \in 1..Len(out.value) |-> out.value[i].days_until]]

\* C15: the year of a renewal date changes nothing: the same month and day
\* in another year give the same day count on every today, and a record is
\* among the upcoming renewals with the one date exactly when it is with the other.
C15_YearIrrelevant ==
    [][(CalculateDays /\ IsRealDateText(renewal_date)) =>
          /\ \A y \in OtherYears :
                 IsRealDateText(InYear(y)) =>
                     calculate_days_until_renewal(InYear(y), today) = days'
          /\ \A window \in Windows :
                 LET listed == Listed(renewal_date, window)
                 IN  \A y \in OtherYears :
                         IsRealDateText(InYear(y)) => Listed(InYear(y), window) = listed]_vars

\* a day count was returned for 15 June 2025, which has a counterpart in every other year
C15_Witness ==
    /\ Called
    /\ days.raised = ""
    /\ renewal_date = DateString(2025, 6, 15)
    /\ InYear(2023) # renewal_date /\ IsRealDateText(InYear(2023))

----------------------------------------------------------------------------
(* The queries' claims *)

Asked(call) == result.call = call

Returned == result.out.raised = ""

\* the row of which sub is the record
RowOf(sub) ==
    <<sub.id, sub.name, sub.category, sub.cost, sub.renewal_date, sub.payment_method>>

\* a sequence of records holds each of the rows of S once and nothing else
HoldsExactly(subs, S) ==
    /\ Len(subs) = Cardinality(S)
    /\ {RowOf(subs[i]) : i \in 1..Len(subs)} = S

\* ascending by name, upper case before lower case
AscendingByName(subs) ==
    \A i, j \in 1..Len(subs) : i < j => ~TextLess(subs[j].name, subs[i].name)

\* the day count of a stored row against today
DaysUntil(row) == calculate_days_until_renewal(row[5], today)

\* C11: the upcoming renewals within a window of days are exactly the stored
\* records whose day count against today lies in 0..days, each paired with
\* that count, in ascending order of the count and, among equal counts, of
\* the name.
C11_UpcomingExactAndSorted ==
    Asked("get_upcoming_renewals") =>
        LET upcoming == result.out.value
            n        == Len(upcoming)
            due      == {row \in table : /\ DaysUntil(row).raised = ""
                                         /\ DaysUntil(row).value >= 0
                                         /\ DaysUntil(row).value <= result.arg}
        IN  /\ Returned
            /\ HoldsExactly([i \in 1..n |-> upcoming[i].subscription], due)
            /\ \A i \in 1..n :
                   upcoming[i].days_until = DaysUntil(RowOf(upcoming[i].subscription)).value
            /\ \A i, j \in 1..n : i < j =>
                   \/ upcoming[i].days_until < upcoming[j].days_until
                   \/ /\ upcoming[i].days_until = upcoming[j].days_until
                      /\ ~TextLess(upcoming[j].subscription.name, upcoming[i].subscription.name)

\* C12: a search for the empty string returns no record, whatever is stored.
C12_EmptyQueryFindsNothing ==
    (Asked("search_subscriptions") /\ result.arg = <<>>) => result.out = Ret(<<>>)

\* text contains query as a substring, letters compared without regard to case
ContainsIgnoringCase(text, query) ==
    \E start \in 1..(Len(text) - Len(query) + 1) :
        \A k \in 1..Len(query) : LowerChar(text[start + k - 1]) = LowerChar(query[k])

\* C13: a search for a non-empty string, % and _ included, returns exactly
\* the stored records whose name or category contains the string itself,
\* letters compared without regard to case, in the order of the full list.
C13_SearchIsLiteralSubstring ==
    (Asked("search_subscriptions") /\ result.arg # <<>>) =>
        LET matching == {row \in table : \/ ContainsIgnoringCase(row[2], result.arg)
                                         \/ ContainsIgnoringCase(row[3], result.arg)}
        IN  /\ Returned
            /\ HoldsExactly(result.out.value, matching)
            /\ AscendingByName(result.out.value)

\* C19: the full list holds every stored record exactly once, in ascending
\* order of the names, upper case before lower case.
C19_ListAllEveryRecordByName ==
    Asked("get_all_subscriptions") =>
        /\ Returned
        /\ HoldsExactly(result.out.value, table)
        /\ AscendingByName(result.out.value)

RECURSIVE SumOfCosts(_)
SumOfCosts(S) ==
    IF S = {} THEN 0
    ELSE LET row == CHOOSE r \in S : TRUE
         IN  row[4] + SumOfCosts(S \ {row})

\* C20: the costs by category have one entry for each category some stored
\* record has, categories told apart as exact strings, and the entry is the
\* sum of the costs of the records of the category; no entry for an empty store.
C20_CostByCategorySums ==
    Asked("get_cost_by_category") =>
        /\ Returned
        /\ DOMAIN result.out.value = {row[3] : row \in table}
        /\ \A category \in DOMAIN result.out.value :
               result.out.value[category] = SumOfCosts({row \in table : row[3] = category})


\* C21: the monthly total is the sum of the costs of the stored records, 0
\* for an empty store, and the annual total is 12 times that sum, whatever
\* adds, updates and deletes came before.
C21_TotalsAreSums ==
    /\ Asked("get_total_monthly_cost") => result.out = Ret(SumOfCosts(table))
    /\ Asked("get_total_annual_cost") => result.out = Ret(12 * SumOfCosts(table))


\* the reads that rebuild the rows they fetch and do nothing else
LoadingReads ==
    {"get_all_subscriptions", "search_subscriptions", "get_total_monthly_cost",
     "get_total_annual_cost", "get_cost_by_category"}

\* C24: whatever writes the store has accepted, a read completes with a
\* result: no stored row makes a read raise when it is rebuilt.  (For the
\* upcoming renewals only a raise on rebuilding a row is held against the
\* writes.)
C24_ReadsComplete ==
    /\ result.call \in LoadingReads => Returned
    /\ Asked("get_upcoming_renewals") => (Returned \/ ~get_all_subscriptions_raises(table))
    /\ lastOp.op \in {"get", "list"} => lastOp.raised = ""

\* C25: over a store whose rows all load, the upcoming renewals are computed
\* whatever today is, and hold every record whose day count lies in the
\* window: a 29 February record in a year without that day neither makes the
\* query fail nor costs the other records their place.
C25_UpcomingSurvivesLeapDay ==
    (Asked("get_upcoming_renewals") /\ ~get_all_subscriptions_raises(table)) =>
        /\ Returned
        /\ \A i \in 1..Len(result.rows) :
               LET count == calculate_days_until_renewal(result.rows[i][5], result.clock[i])
               IN  (count.raised = "" /\ 0 <= count.value /\ count.value <= result.arg) =>
                       \E j \in 1..Len(result.out.value) :
                           result.out.value[j].subscription.id = result.rows[i][1]

\* C26: the day counts one call of the upcoming renewals returns are all
\* counted from one and the same day, also when midnight passes while the
\* call goes through the records.
C26_OneTodayPerCall ==
    (Asked("get_upcoming_renewals") /\ Returned) =>
        \E now \in {today, NextDay(today)} :
            \A j \in 1..Len(result.out.value) :
                LET pair == result.out.value[j]
                IN  pair.days_until =
                        calculate_days_until_renewal(pair.subscription.renewal_date, now).value


\* the calls that are reads, as lastOp names them
ReadOps ==
    {"get", "list", "get_all_subscriptions", "search_subscriptions", "get_upcoming_renewals",
     "get_cost_by_category", "get_total_monthly_cost", "get_total_annual_cost"}

\* a step that ends with a read as the last call made
ReadStep == lastOp'.op \in ReadOps

\* C28: a read leaves the stored rows and the next id to be handed out as
\* they were, whether it returns or raises; the pairs of the upcoming
\* renewals are not written to the store.
C28_ReadsLeaveStoreAlone ==
    [][ReadStep => (table' = table /\ seq' = seq)]_vars

\* the upcoming renewals have just returned a pair over a store of two records
C28_Witness ==
    /\ Asked("get_upcoming_renewals")
    /\ Returned
    /\ Len(result.out.value) >= 1
    /\ Cardinality(table) = 2


RECURSIVE SumOfValues(_, _)
SumOfValues(f, keys) ==
    IF keys = {} THEN 0
    ELSE LET key == CHOOSE k \in keys : TRUE
         IN  f[key] + SumOfValues(f, keys \ {key})

\* C29: in every state of the store the costs by category add up to the
\* monthly total, and their keys are the categories of the records of the
\* full list.
C29_CategoriesAddUpToTotal ==
    Asked("get_cost_by_category") =>
        LET by_category == result.out.value
            total       == get_total_monthly_cost(result.rows)
            all         == get_all_subscriptions(result.rows)
        IN  /\ Returned
            /\ total.raised = ""
            /\ all.raised = ""
            /\ SumOfValues(by_category, DOMAIN by_category) = total.value
            /\ DOMAIN by_category = {all.value[i].category : i \in 1..Len(all.value)}


\* the rows of t whose id is not id
Others(t, id) == {r \in t : r[1] # id}

\* C27: an update or a delete of one id leaves every record of another id as
\* it was, and an update changes neither the ids stored nor how many records
\* there are.
C27_OtherRecordsUntouched ==
    [][lastOp'.op \in {"update", "delete"} =>
          /\ Others(table', lastOp'.id) = Others(table, lastOp'.id)
          /\ lastOp'.op = "update" =>
                 /\ RowIds(table') = RowIds(table)
                 /\ Cardinality(table') = Cardinality(table)]_vars

\* an update has just replaced one record while another one is stored
C27_Witness ==
    /\ lastOp.op = "update"
    /\ lastOp.ret = "True"
    /\ Others(table, lastOp.id) # {}


\* C22: when sqlite3 fails during list_all, get, search, update or delete, the
\* caller gets an error, something it can tell from an empty list, from
\* "not found" and from a plain False.
C22_StorageFailuresSurface ==
    (/\ sqliteError
     /\ lastOp.op \in {"get_all_subscriptions", "get", "search_subscriptions", "update", "delete"})
        => lastOp.raised # ""

\* the rows a completed add or update of the id can leave
WholeRecords(id) == {InsertRow(id, in) : in \in FaultInputs}

\* C23: after every step each stored row either was stored before the step or
\* holds all the values of the record of the add or update the step completed;
\* a call that failed in the database changes no row.
C23_WritesAreAtomic ==
    [][\A r \in table' :
          \/ r \in table
          \/ /\ lastOp'.op \in {"add", "update"}
             /\ ~sqliteError'
             /\ lastOp'.raised = ""
             /\ lastOp'.ret \in {"id", "True"}
             /\ r \in WholeRecords(lastOp'.id)]_vars

\* an update of a stored record has just failed in the database
C23_Witness ==
    /\ sqliteError
    /\ lastOp.op = "update"
    /\ lastOp.ret = "False"
    /\ lastOp.id \in RowIds(table)


\* C30: when an edit flow, of the CLI or of the GUI, comes to its end on a
\* record that was deleted since the flow read it, the table stays as it is,
\* without the id, and the flow tells the user that the edit failed.
C30_EditOfDeletedRecordFails ==
    [][(/\ lastOp'.op \in {"update", "ok_clicked"}
        /\ lastOp'.id \notin RowIds(table)) =>
          /\ table' = table
          /\ lastOp'.ret \in {"False", "showerror"}]_vars

====
